---- MODULE Spec2Model ----
(***************************************************************************)
(* A model of src/workerHelpers.js of wasm-bindgen-rayon: the host side    *)
(* startWorkers, the worker-side trampoline, the one-shot message waiter   *)
(* waitForMsgType and the module resolver resolveMainModule.               *)
(*                                                                         *)
(* One action is one task of a JavaScript event loop (a task and the       *)
(* microtasks it queues run to completion), with one exception: the        *)
(* synchronous part of startWorkers is cut after every callback of         *)
(* Array.from, because the worker threads it has already created run in    *)
(* parallel with it.  While it lasts no other host task runs (HostBusy).   *)
(***************************************************************************)
EXTENDS Naturals, Sequences, FiniteSets

(***************************************************************************)
(* Bounds of the model.                                                    *)
(***************************************************************************)
\* the largest value builder.numThreads() returns
MaxThreads == 2
\* the size of a run: the contexts the two invocations request together
\* plus the messages that code other than this file posts
MaxLoad == 3

Builders == {"b1", "b2"}

Ctx == Builders \X (1..MaxThreads)

None == "none"

Max(S) == CHOOSE n \in S : \A m \in S : m <= n

(***************************************************************************)
(* Text.  A text is a sequence of lexemes; every lexeme stands for the     *)
(* characters of its name, "sp" and "nl" for a blank and a line break,     *)
(* "dq" and "sq" for the double and the single quote, "eq" for "=".        *)
(***************************************************************************)
Space == {"sp", "nl"}
Quote == {"dq", "sq"}
Lexemes ==
  { "sp", "nl", "dq", "sq", "eq", "<script", "<SCRIPT", "src=", "SRC=",
    "type", "TYPE", "module", "MODULE", "text/javascript", ">", "<html>",
    "/", "./", "app-abcd.js", "run.js", "legacy.js", "chunk-123.js",
    "import", "init", "from", "pkg", ";", "console.log" }
NotQuote == Lexemes \ Quote

\* one element of a regular expression: a class of lexemes, a quantifier
\* ("one", "opt", "star", "plus": none, ?, *, +) and whether it is the
\* capture group
El(cls, q, cap) == [cls |-> cls, q |-> q, cap |-> cap]

NoMatch == [ok |-> FALSE, cap |-> <<>>]

RECURSIVE RunLen(_, _, _)
\* the number of consecutive lexemes of class cls in s from position pos
RunLen(s, pos, cls) ==
  IF pos > Len(s) \/ s[pos] \notin cls THEN 0
  ELSE 1 + RunLen(s, pos + 1, cls)

\* how many lexemes element e may take at position pos of s
Takes(e, s, pos) ==
  LET run == RunLen(s, pos, e.cls)
      lo == IF e.q \in {"one", "plus"} THEN 1 ELSE 0
      hi == IF e.q \in {"one", "opt"} THEN (IF run > 0 THEN 1 ELSE 0) ELSE run
  IN  lo..hi

RECURSIVE Matches(_, _, _, _)
\* whether the elements k.. of pat match at position pos of s
Matches(pat, s, k, pos) ==
  IF k > Len(pat) THEN TRUE
  ELSE \E n \in Takes(pat[k], s, pos) : Matches(pat, s, k + 1, pos + n)

RECURSIVE Capture(_, _, _, _)
\* the capture group of the match of the elements k.. of pat at position
\* pos of s, which matches there; a quantifier is greedy: it takes the most
\* lexemes that the rest still matches
Capture(pat, s, k, pos) ==
  IF k > Len(pat) THEN <<>>
  ELSE LET n == Max({m \in Takes(pat[k], s, pos) : Matches(pat, s, k + 1, pos + m)})
       IN  IF pat[k].cap THEN SubSeq(s, pos, pos + n - 1)
           ELSE Capture(pat, s, k + 1, pos + n)

\* String.prototype.match without the g flag: the leftmost match
StrMatch(pat, s) ==
  LET starts == {p \in 1..(Len(s) + 1) : Matches(pat, s, 1, p)}
  IN  IF starts = {} THEN NoMatch
      ELSE [ok |-> TRUE,
            cap |-> Capture(pat, s, 1, CHOOSE p \in starts : \A q \in starts : p <= q)]

\* /<script\s+src=['"]([^'"]+)['"]\s+type\s*=\s*['"]?module/i
ScriptTagRe ==
  << El({"<script", "<SCRIPT"}, "one", FALSE),
     El(Space, "plus", FALSE),
     El({"src=", "SRC="}, "one", FALSE),
     El(Quote, "one", FALSE),
     El(NotQuote, "plus", TRUE),
     El(Quote, "one", FALSE),
     El(Space, "plus", FALSE),
     El({"type", "TYPE"}, "one", FALSE),
     El(Space, "star", FALSE),
     El({"eq"}, "one", FALSE),
     El(Space, "star", FALSE),
     El(Quote, "opt", FALSE),
     El({"module", "MODULE"}, "one", FALSE) >>

\* /from\s+['"]\.\/([^'"]+)['"]/
FromRe ==
  << El({"from"}, "one", FALSE),
     El(Space, "plus", FALSE),
     El(Quote, "one", FALSE),
     El({"./"}, "one", FALSE),
     El(NotQuote, "plus", TRUE),
     El(Quote, "one", FALSE) >>

(***************************************************************************)
(* URLs.  A URL of the one origin is the sequence of its path segments; a  *)
(* directory URL (one that ends in "/") is the sequence of its             *)
(* directories.                                                            *)
(***************************************************************************)
RECURSIVE Segments(_)
\* the path segments of a relative reference: "/" and "./" name none
Segments(rel) ==
  IF rel = <<>> THEN <<>>
  ELSE IF Head(rel) \in {"/", "./"} THEN Segments(Tail(rel))
  ELSE <<Head(rel)>> \o Segments(Tail(rel))

\* new URL(rel, base).href for a directory URL base
NewURL(rel, base) ==
  IF rel # <<>> /\ Head(rel) = "/" THEN Segments(rel)
  ELSE base \o Segments(rel)

\* the places the build is served from: "/" and "/pkg/"
Roots == {<<>>, <<"pkg">>}

\* import.meta.url of workerHelpers.js under root:
\* [out-dir]/snippets/wasm-bindgen-rayon-[hash]/src/workerHelpers.js
MetaUrl(root) ==
  root \o <<"snippets", "wasm-bindgen-rayon-hash", "src", "workerHelpers.js">>

\* RootUrlOf with '../..' for '../../..'
RootUrlOfTwoUp(meta) == SubSeq(meta, 1, Len(meta) - 3)

\* new URL('../../..', import.meta.url).href: three levels above the
\* directory of the file
RootUrlOf(meta) == SubSeq(meta, 1, Len(meta) - 4)

(***************************************************************************)
(* What the server holds: the page at the root URL and the entry script.  *)
(***************************************************************************)
\* <html><script src="/app-abcd.js" type="module">
HtmlSrcFirst ==
  << "<html>", "<script", "sp", "src=", "dq", "/", "app-abcd.js", "dq", "sp",
     "type", "eq", "dq", "module", "dq", ">" >>
\* <script type="module" src="/app-abcd.js">
HtmlTypeFirst ==
  << "<script", "sp", "type", "eq", "dq", "module", "dq", "sp",
     "src=", "dq", "/", "app-abcd.js", "dq", ">" >>
\* <SCRIPT SRC='./run.js' (line break) type = module>
HtmlUnquoted ==
  << "<SCRIPT", "sp", "SRC=", "sq", "./", "run.js", "sq", "nl",
     "type", "sp", "eq", "sp", "module", ">" >>
\* <script src="/legacy.js" type="text/javascript">
HtmlNoModule ==
  << "<script", "sp", "src=", "dq", "/", "legacy.js", "dq", "sp",
     "type", "eq", "dq", "text/javascript", "dq", ">" >>
\* a page without a script
HtmlNoScript == << "<html>" >>

HtmlDocs == {HtmlSrcFirst, HtmlTypeFirst, HtmlUnquoted, HtmlNoModule, HtmlNoScript}

\* import init from "./chunk-123.js";
ScriptFromChunk ==
  << "import", "sp", "init", "sp", "from", "sp", "dq", "./", "chunk-123.js", "dq", ";" >>
\* import init from 'pkg';
ScriptFromBare ==
  << "import", "sp", "init", "sp", "from", "sp", "sq", "pkg", "sq", ";" >>
\* console.log
ScriptNoFrom == << "console.log" >>

ScriptTexts == {ScriptFromChunk, ScriptFromBare, ScriptNoFrom}

(***************************************************************************)
(* Messages.                                                               *)
(***************************************************************************)
InitType == "wasm_bindgen_worker_init"
ReadyType == "wasm_bindgen_worker_ready"

ModuleOf(b) == "module"
MemoryOf(b) == IF b = "b1" THEN "memory1" ELSE "memory2"
\* what builder.receiver() returns
ReceiverOf(b) == IF b = "b1" THEN "receiver1" ELSE "receiver2"

\* WorkerInit with module and memory exchanged inside init
WorkerInitSwapped(module, memory, receiver) ==
  [type |-> InitType, init |-> [module |-> memory, memory |-> module],
   receiver |-> receiver]

\* the workerInit object of startWorkers(module, memory, builder)
WorkerInit(module, memory, receiver) ==
  [type |-> InitType, init |-> [module |-> module, memory |-> memory],
   receiver |-> receiver]

ReadyMsg == [type |-> ReadyType]

\* messages of code that shares the channel: one of another type, and one
\* that carries the type of the init message
OtherMsg == [type |-> "other"]
ForeignInit == WorkerInit("foreign", "foreign", "foreign")

NoMsg == [type |-> None]

(***************************************************************************)
(* waitForMsgType: the promise and its listener.  resolves counts the      *)
(* calls of resolve; the promise keeps the value of the first.             *)
(***************************************************************************)
NoWaiter == [listening |-> FALSE, want |-> None, resolves |-> 0, value |-> NoMsg]

\* WaitForMsgType that does not add its listener within the call
WaitForMsgTypeLate(type) ==
  [listening |-> FALSE, want |-> type, resolves |-> 0, value |-> NoMsg]

\* new Promise(resolve => target.addEventListener('message', onMsg))
WaitForMsgType(type) ==
  [listening |-> TRUE, want |-> type, resolves |-> 0, value |-> NoMsg]

\* OnMsg with data !== type for data?.type !== type: an object is never
\* the string, so that every message is passed over
OnMsgComparesData(w, data) == w

\* OnMsg without target.removeEventListener('message', onMsg)
OnMsgKeepsListening(w, data) ==
  IF data.type # w.want THEN w
  ELSE [w EXCEPT !.resolves = @ + 1,
                 !.value = IF w.resolves = 0 THEN data ELSE @]

\* OnMsg without the test of data?.type: any message resolves the promise
OnMsgAnyType(w, data) ==
  [w EXCEPT !.listening = FALSE,
            !.resolves = @ + 1,
            !.value = IF w.resolves = 0 THEN data ELSE @]

\* OnMsg with target.removeEventListener('message', onMsg) ahead of the
\* test of data?.type: the first message of any type removes the listener
OnMsgRemovesAlways(w, data) ==
  IF data.type # w.want THEN [w EXCEPT !.listening = FALSE]
  ELSE [w EXCEPT !.listening = FALSE,
                 !.resolves = @ + 1,
                 !.value = IF w.resolves = 0 THEN data ELSE @]

\* onMsg({ data })
OnMsg(w, data) ==
  IF data.type # w.want THEN w
  ELSE [w EXCEPT !.listening = FALSE,
                 !.resolves = @ + 1,
                 !.value = IF w.resolves = 0 THEN data ELSE @]

\* the dispatch of a message event on the target: its listeners run
Dispatch(w, data) == IF w.listening THEN OnMsg(w, data) ELSE w

(***************************************************************************)
(* State.                                                                  *)
(***************************************************************************)
VARIABLES
  numThreads,    \* builder -> what builder.numThreads() returns
  root,          \* the directory URL the build is served from
  html,          \* the text served at the root URL
  script,        \* the text of the page's entry script
  foreignLeft,   \* how many foreign messages may still be posted
  hpc,           \* builder -> where startWorkers(.., builder) is
  workerInit,    \* builder -> its workerInit object
  receiverCalls, \* builder -> calls of builder.receiver()
  workerCalls,   \* builder -> calls of new Worker(...)
  buildCalls,    \* builder -> calls of builder.build()
  buildSaw,      \* builder -> the contexts whose ready had been observed
                 \*            when build() was called
  cb,            \* context -> the promise of its Array.from callback
  hwait,         \* context -> the host's waiter on its Worker object
  seenH,         \* context -> the messages dispatched on its Worker object
  outbox,        \* context -> messages posted to the host, not yet dispatched
  inbox,         \* context -> messages posted to it, not yet dispatched
  cwait,         \* context -> its waiter on self
  seenC,         \* context -> the messages dispatched on its self
  ctx            \* context -> the trampoline's state

vars ==
  << numThreads, root, html, script, foreignLeft, hpc, workerInit,
     receiverCalls, workerCalls, buildCalls, buildSaw, cb, hwait, seenH,
     outbox, inbox, cwait, seenC, ctx >>

inputs == << numThreads, root, html, script >>

\* no URL, and no argument of initSync
NoUrl == <<None>>
NoInitArg == [module |-> None, memory |-> None]

NoCtx ==
  [pc |-> "unspawned", direct |-> None, rerr |-> None, module |-> NoUrl,
   fetches |-> <<>>, importReq |-> NoUrl, initArg |-> NoInitArg,
   startArg |-> None, trace |-> <<>>]

RECURSIVE SumThreads(_, _)
SumThreads(f, S) ==
  IF S = {} THEN 0
  ELSE LET b == CHOOSE x \in S : TRUE IN f[b] + SumThreads(f, S \ {b})

\* what the two builders report, within a run of size load
ThreadChoices(load) ==
  {f \in [Builders -> 0..MaxThreads] : SumThreads(f, Builders) <= load}

InitState ==
  /\ hpc = [b \in Builders |-> "idle"]
  /\ workerInit = [b \in Builders |-> NoMsg]
  /\ receiverCalls = [b \in Builders |-> 0]
  /\ workerCalls = [b \in Builders |-> 0]
  /\ buildCalls = [b \in Builders |-> 0]
  /\ buildSaw = [b \in Builders |-> {}]
  /\ cb = [c \in Ctx |-> "none"]
  /\ hwait = [c \in Ctx |-> NoWaiter]
  /\ seenH = [c \in Ctx |-> <<>>]
  /\ outbox = [c \in Ctx |-> <<>>]
  /\ inbox = [c \in Ctx |-> <<>>]
  /\ cwait = [c \in Ctx |-> NoWaiter]
  /\ seenC = [c \in Ctx |-> <<>>]
  /\ ctx = [c \in Ctx |-> NoCtx]

\* two builders, a run of size load, and a server that holds a page the
\* fallback can use
InitOfLoad(load) ==
  /\ numThreads \in ThreadChoices(load)
  /\ root = <<>>
  /\ html = HtmlSrcFirst
  /\ script = ScriptFromChunk
  /\ foreignLeft = load - SumThreads(numThreads, Builders)
  /\ InitState

Init == InitOfLoad(MaxLoad)

\* the runs on which progress is checked are one smaller
InitFair == InitOfLoad(MaxLoad - 1)

\* one builder of one thread and any server
InitResolver ==
  /\ numThreads = [b \in Builders |-> IF b = "b1" THEN 1 ELSE 0]
  /\ root \in Roots
  /\ html \in HtmlDocs
  /\ script \in ScriptTexts
  /\ foreignLeft = MaxLoad - SumThreads(numThreads, Builders)
  /\ InitState

(***************************************************************************)
(* The host: startWorkers(module, memory, builder).                        *)
(***************************************************************************)
\* Callbacks with one callback too many
CallbacksOneMore(b) == numThreads[b] + 1

\* the length of the array of callbacks: builder.numThreads()
Callbacks(b) == numThreads[b]

\* the places of the array of callbacks of builder b
Slots(b) == {<<b, i>> : i \in 1..numThreads[b]}

\* HostBusy when the contexts are started in turn by a loop that awaits:
\* the host takes other tasks between two of them
HostBusyNever == FALSE

\* the host is inside the synchronous part of an invocation
HostBusy == \E b \in Builders : hpc[b] = "spawning"

\* AnyRejected of a Promise.allSettled: a rejection is not looked at
AnyRejectedIgnored(cbs, b) == FALSE

\* AnyRejected when the callbacks also reject on a failure inside their
\* context: a context that failed counts as a rejected element
AnyRejectedOnFailure(cbs, b) ==
  \E c \in {<<b, i>> : i \in 1..numThreads[b]} :
    cbs[c] = "rejected" \/ ctx[c].pc = "failed"

\* Promise.all(promises) has a rejected element
AnyRejected(cbs, b) == \E c \in Slots(b) : cbs[c] = "rejected"

\* AllFulfilled of a Promise.any: one fulfilled element is enough
AllFulfilledByOne(cbs, b) ==
  \E c \in {<<b, i>> : i \in 1..numThreads[b]} : cbs[c] = "fulfilled"

\* AllFulfilled when the callbacks do not await their waiter: a pending
\* element counts as fulfilled
AllFulfilledUnawaited(cbs, b) ==
  \A c \in {<<b, i>> : i \in 1..numThreads[b]} : cbs[c] # "rejected"

\* AllFulfilled over one array of promises shared by the invocations: the
\* promises of any builder's contexts count
AllFulfilledShared(cbs, b) ==
  \E b2 \in Builders :
    \A c \in {<<b2, i>> : i \in 1..numThreads[b2]} : cbs[c] = "fulfilled"

\* AllFulfilled that needs an element: over no promise it is never true
AllFulfilledNonEmpty(cbs, b) ==
  /\ numThreads[b] > 0
  /\ \A c \in {<<b, i>> : i \in 1..numThreads[b]} : cbs[c] = "fulfilled"

\* Promise.all(promises) is fulfilled: every element is
AllFulfilled(cbs, b) == \A c \in Slots(b) : cbs[c] = "fulfilled"

\* the contexts of b whose ready message the host has observed
ReadySeen(hw, b) == {c \in Slots(b) : hw[c].resolves > 0}

\* await Promise.all(...); builder.build(); with the callbacks' promises
\* as they are in cbs and the waiters as they are in hw
AwaitAllThenBuild(b, cbs, hw) ==
  IF AnyRejected(cbs, b)
  THEN /\ hpc' = [hpc EXCEPT ![b] = "rejected"]
       /\ UNCHANGED <<buildCalls, buildSaw>>
  ELSE IF AllFulfilled(cbs, b)
  THEN /\ buildCalls' = [buildCalls EXCEPT ![b] = @ + 1]
       /\ buildSaw' = [buildSaw EXCEPT ![b] = ReadySeen(hw, b)]
       /\ hpc' = [hpc EXCEPT ![b] = "resolved"]
  ELSE /\ hpc' = [hpc EXCEPT ![b] = "awaiting"]
       /\ UNCHANGED <<buildCalls, buildSaw>>

\* the call: workerInit is built, builder.numThreads() is read; with no
\* thread to start Promise.all([]) is fulfilled at once
StartWorkers(b) ==
  /\ ~HostBusy
  /\ hpc[b] = "idle"
  /\ receiverCalls' = [receiverCalls EXCEPT ![b] = @ + 1]
  /\ workerInit' =
       [workerInit EXCEPT ![b] = WorkerInit(ModuleOf(b), MemoryOf(b), ReceiverOf(b))]
  /\ IF Callbacks(b) = 0
     THEN AwaitAllThenBuild(b, cb, hwait)
     ELSE /\ hpc' = [hpc EXCEPT ![b] = "spawning"]
          /\ UNCHANGED <<buildCalls, buildSaw>>
  /\ UNCHANGED <<inputs, foreignLeft, workerCalls, cb, hwait, seenH, outbox,
                 inbox, cwait, seenC, ctx>>

\* the next callback of Array.from: new Worker(...), which may throw;
\* worker.postMessage(workerInit); waitForMsgType(worker, ready).  After the
\* last one the synchronous part ends at await Promise.all(...)
SpawnWorker(b) ==
  /\ hpc[b] = "spawning"
  /\ LET c == <<b, workerCalls[b] + 1>>
         last == workerCalls[b] + 1 = Callbacks(b)
     IN
     /\ workerCalls' = [workerCalls EXCEPT ![b] = @ + 1]
     /\ \E created \in BOOLEAN :
          /\ IF created
             THEN /\ ctx' = [ctx EXCEPT ![c].pc = "loading"]
                  /\ inbox' = [inbox EXCEPT ![c] = Append(@, workerInit[b])]
                  /\ hwait' = [hwait EXCEPT ![c] = WaitForMsgType(ReadyType)]
                  /\ cb' = [cb EXCEPT ![c] = "pending"]
             ELSE /\ cb' = [cb EXCEPT ![c] = "rejected"]
                  /\ UNCHANGED <<ctx, inbox, hwait>>
          /\ IF last
             THEN AwaitAllThenBuild(b, cb', hwait')
             ELSE UNCHANGED <<hpc, buildCalls, buildSaw>>
  /\ UNCHANGED <<inputs, foreignLeft, workerInit, receiverCalls, seenH,
                 outbox, cwait, seenC>>

\* a message event on the Worker object of context c
HostDeliver(c) ==
  /\ ~HostBusy
  /\ outbox[c] # <<>>
  /\ LET b == c[1]
         data == Head(outbox[c])
         w == Dispatch(hwait[c], data)
         resolved == hwait[c].resolves = 0 /\ w.resolves > 0
     IN
     /\ outbox' = [outbox EXCEPT ![c] = Tail(@)]
     /\ seenH' = [seenH EXCEPT ![c] = Append(@, data)]
     /\ hwait' = [hwait EXCEPT ![c] = w]
     /\ cb' = [cb EXCEPT ![c] = IF resolved THEN "fulfilled" ELSE @]
     /\ IF resolved /\ hpc[b] = "awaiting"
        THEN AwaitAllThenBuild(b, cb', hwait')
        ELSE UNCHANGED <<hpc, buildCalls, buildSaw>>
  /\ UNCHANGED <<inputs, foreignLeft, workerInit, receiverCalls, workerCalls,
                 inbox, cwait, seenC, ctx>>

(***************************************************************************)
(* The worker: the trampoline and resolveMainModule.                       *)
(***************************************************************************)
RootUrl == RootUrlOf(MetaUrl(root))

\* the script runs: name === "wasm_bindgen_worker", and
\* waitForMsgType(self, init) registers its listener
WorkerBoot(c) ==
  /\ ctx[c].pc = "loading"
  /\ cwait' = [cwait EXCEPT ![c] = WaitForMsgType(InitType)]
  /\ ctx' = [ctx EXCEPT ![c].pc = "awaiting"]
  /\ UNCHANGED <<inputs, foreignLeft, hpc, workerInit, receiverCalls,
                 workerCalls, buildCalls, buildSaw, cb, hwait, seenH, outbox,
                 inbox, seenC>>

\* Looping when startWorkers terminates its workers on rejecting: a
\* context of a rejected invocation takes no task
LoopingUntilRejected(c) ==
  /\ ctx[c].pc \in {"awaiting", "importing", "fetchRoot", "fetchScript",
                    "importing2", "failed"}
  /\ hpc[c[1]] # "rejected"

\* the worker's event loop takes tasks: its script has run and it is not
\* inside wbg_rayon_start_worker, which does not return
Looping(c) ==
  ctx[c].pc \in {"awaiting", "importing", "fetchRoot", "fetchScript",
                 "importing2", "failed"}

\* a message event on self; on the init message the .then callback calls
\* resolveMainModule, which starts import('../../..')
CtxDeliver(c) ==
  /\ Looping(c)
  /\ inbox[c] # <<>>
  /\ LET data == Head(inbox[c])
         w == Dispatch(cwait[c], data)
         resolved == cwait[c].resolves = 0 /\ w.resolves > 0
     IN
     /\ inbox' = [inbox EXCEPT ![c] = Tail(@)]
     /\ seenC' = [seenC EXCEPT ![c] = Append(@, data)]
     /\ cwait' = [cwait EXCEPT ![c] = w]
     /\ ctx' = IF resolved
               THEN [ctx EXCEPT ![c].pc = "importing",
                                ![c].trace = @ \o <<"init", "resolve">>]
               ELSE ctx
  /\ UNCHANGED <<inputs, foreignLeft, hpc, workerInit, receiverCalls,
                 workerCalls, buildCalls, buildSaw, cb, hwait, seenH, outbox>>

\* Trampoline with pkg.wbg_rayon_start_worker(data.receiver) ahead of
\* postMessage(ready): the call does not return and nothing is posted
TrampolineStartsFirst(c, how, url, initOk) ==
  LET data == cwait[c].value
      direct == IF how = "direct" THEN "ok" ELSE ctx[c].direct
  IN
  IF initOk
  THEN /\ ctx' = [ctx EXCEPT ![c].pc = "running",
                             ![c].direct = direct,
                             ![c].module = url,
                             ![c].initArg = data.init,
                             ![c].startArg = data.receiver,
                             ![c].trace = @ \o <<"resolved", "initSync", "start">>]
       /\ UNCHANGED outbox
  ELSE /\ ctx' = [ctx EXCEPT ![c].pc = "failed",
                             ![c].direct = direct,
                             ![c].module = url,
                             ![c].initArg = data.init,
                             ![c].trace = @ \o <<"resolved", "initSync">>]
       /\ UNCHANGED outbox

\* Trampoline with postMessage(ready) ahead of pkg.initSync(data.init): the
\* message is posted whether or not initSync throws
TrampolineReadyFirst(c, how, url, initOk) ==
  LET data == cwait[c].value
      direct == IF how = "direct" THEN "ok" ELSE ctx[c].direct
  IN
  IF initOk
  THEN /\ ctx' = [ctx EXCEPT ![c].pc = "running",
                             ![c].direct = direct,
                             ![c].module = url,
                             ![c].initArg = data.init,
                             ![c].startArg = data.receiver,
                             ![c].trace = @ \o <<"resolved", "ready", "initSync", "start">>]
       /\ outbox' = [outbox EXCEPT ![c] = Append(@, ReadyMsg)]
  ELSE /\ ctx' = [ctx EXCEPT ![c].pc = "failed",
                             ![c].direct = direct,
                             ![c].module = url,
                             ![c].initArg = data.init,
                             ![c].trace = @ \o <<"resolved", "ready", "initSync">>]
       /\ outbox' = [outbox EXCEPT ![c] = Append(@, ReadyMsg)]

\* the rest of the .then callback, pkg being the module at url:
\* pkg.initSync(data.init), which may throw; postMessage(ready);
\* pkg.wbg_rayon_start_worker(data.receiver)
Trampoline(c, how, url, initOk) ==
  LET data == cwait[c].value
      direct == IF how = "direct" THEN "ok" ELSE ctx[c].direct
  IN
  IF initOk
  THEN /\ ctx' = [ctx EXCEPT ![c].pc = "running",
                             ![c].direct = direct,
                             ![c].module = url,
                             ![c].initArg = data.init,
                             ![c].startArg = data.receiver,
                             ![c].trace = @ \o <<"resolved", "initSync", "ready", "start">>]
       /\ outbox' = [outbox EXCEPT ![c] = Append(@, ReadyMsg)]
  ELSE /\ ctx' = [ctx EXCEPT ![c].pc = "failed",
                             ![c].direct = direct,
                             ![c].module = url,
                             ![c].initArg = data.init,
                             ![c].trace = @ \o <<"resolved", "initSync">>]
       /\ UNCHANGED outbox

\* resolveMainModule rejects with err
Reject(c, err) ==
  /\ ctx' = [ctx EXCEPT ![c].pc = "failed", ![c].rerr = err]
  /\ UNCHANGED outbox

\* import('../../..') settles; when it rejects with e the catch block
\* fetches the root URL
DirectImport(c) ==
  /\ ctx[c].pc = "importing"
  /\ \E ok \in BOOLEAN :
       IF ok
       THEN \E initOk \in BOOLEAN : Trampoline(c, "direct", RootUrl, initOk)
       ELSE /\ ctx' = [ctx EXCEPT ![c].pc = "fetchRoot",
                                  ![c].direct = "failed",
                                  ![c].fetches = Append(@, RootUrl)]
            /\ UNCHANGED outbox
  /\ UNCHANGED <<inputs, foreignLeft, hpc, workerInit, receiverCalls,
                 workerCalls, buildCalls, buildSaw, cb, hwait, seenH, inbox,
                 cwait, seenC>>

\* fetch(rootUrl) and resp.text() settle; the page is searched for the
\* script tag and the script is fetched
FetchRoot(c) ==
  /\ ctx[c].pc = "fetchRoot"
  /\ \E ok \in BOOLEAN :
       IF ~ok THEN Reject(c, "fetch")
       ELSE LET scriptTag == StrMatch(ScriptTagRe, html) IN
            IF scriptTag.ok
            THEN /\ ctx' = [ctx EXCEPT ![c].pc = "fetchScript",
                                       ![c].fetches = Append(@, NewURL(scriptTag.cap, RootUrl))]
                 /\ UNCHANGED outbox
            ELSE Reject(c, "e")
  /\ UNCHANGED <<inputs, foreignLeft, hpc, workerInit, receiverCalls,
                 workerCalls, buildCalls, buildSaw, cb, hwait, seenH, inbox,
                 cwait, seenC>>

\* fetch(script) and runJs.text() settle; the script is searched for the
\* relative import and that module is imported
FetchScript(c) ==
  /\ ctx[c].pc = "fetchScript"
  /\ \E ok \in BOOLEAN :
       IF ~ok THEN Reject(c, "fetch")
       ELSE LET fromMatch == StrMatch(FromRe, script) IN
            IF fromMatch.ok
            THEN /\ ctx' = [ctx EXCEPT ![c].pc = "importing2",
                                       ![c].importReq = NewURL(fromMatch.cap, RootUrl)]
                 /\ UNCHANGED outbox
            ELSE Reject(c, "e")
  /\ UNCHANGED <<inputs, foreignLeft, hpc, workerInit, receiverCalls,
                 workerCalls, buildCalls, buildSaw, cb, hwait, seenH, inbox,
                 cwait, seenC>>

\* the import of the fallback settles
FallbackImport(c) ==
  /\ ctx[c].pc = "importing2"
  /\ \E ok \in BOOLEAN :
       IF ok
       THEN \E initOk \in BOOLEAN : Trampoline(c, "fallback", ctx[c].importReq, initOk)
       ELSE Reject(c, "import")
  /\ UNCHANGED <<inputs, foreignLeft, hpc, workerInit, receiverCalls,
                 workerCalls, buildCalls, buildSaw, cb, hwait, seenH, inbox,
                 cwait, seenC>>

(***************************************************************************)
(* Code that shares the channels (see the note at the head of the file).  *)
(***************************************************************************)
\* a message of another type reaches context c, before or after what is
\* queued for it, or one more message of the init type after the host's
ForeignToCtx(c) ==
  /\ foreignLeft > 0
  /\ ctx[c].pc # "unspawned"
  /\ foreignLeft' = foreignLeft - 1
  /\ \/ inbox' = [inbox EXCEPT ![c] = <<OtherMsg>> \o @]
     \/ inbox' = [inbox EXCEPT ![c] = Append(@, OtherMsg)]
     \/ inbox' = [inbox EXCEPT ![c] = Append(@, ForeignInit)]
  /\ UNCHANGED <<inputs, hpc, workerInit, receiverCalls, workerCalls,
                 buildCalls, buildSaw, cb, hwait, seenH, outbox, cwait,
                 seenC, ctx>>

\* context c posts a message of another type to the host
ForeignToHost(c) ==
  /\ foreignLeft > 0
  /\ ctx[c].pc # "unspawned"
  /\ foreignLeft' = foreignLeft - 1
  /\ outbox' = [outbox EXCEPT ![c] = Append(@, OtherMsg)]
  /\ UNCHANGED <<inputs, hpc, workerInit, receiverCalls, workerCalls,
                 buildCalls, buildSaw, cb, hwait, seenH, inbox, cwait,
                 seenC, ctx>>

Next ==
  \/ \E b \in Builders : StartWorkers(b)
  \/ \E b \in Builders : SpawnWorker(b)
  \/ \E c \in Ctx : HostDeliver(c)
  \/ \E c \in Ctx : WorkerBoot(c)
  \/ \E c \in Ctx : CtxDeliver(c)
  \/ \E c \in Ctx : DirectImport(c)
  \/ \E c \in Ctx : FetchRoot(c)
  \/ \E c \in Ctx : FetchScript(c)
  \/ \E c \in Ctx : FallbackImport(c)
  \/ \E c \in Ctx : ForeignToCtx(c)
  \/ \E c \in Ctx : ForeignToHost(c)

Spec == Init /\ [][Next]_vars

SpecResolver == InitResolver /\ [][Next]_vars

(***************************************************************************)
(* Fairness: every event loop runs the tasks queued for it and every       *)
(* import and fetch settles.  Whether a call is made, and what code that   *)
(* shares the channels posts, is left open.                                *)
(***************************************************************************)
Fairness ==
  /\ \A b \in Builders : WF_vars(SpawnWorker(b))
  /\ \A c \in Ctx :
       /\ WF_vars(HostDeliver(c))
       /\ WF_vars(WorkerBoot(c))
       /\ WF_vars(CtxDeliver(c))
       /\ WF_vars(DirectImport(c))
       /\ WF_vars(FetchRoot(c))
       /\ WF_vars(FetchScript(c))
       /\ WF_vars(FallbackImport(c))

FairSpec == InitFair /\ [][Next]_vars /\ Fairness

(***************************************************************************)
(* The claims.                                                             *)
(***************************************************************************)
\* the contexts builder b asks for
Own(b) == {c \in Ctx : c[1] = b /\ c[2] <= numThreads[b]}

\* those of them that exist
Created(b) == {c \in Own(b) : ctx[c].pc # "unspawned"}

\* the positions of the messages of a type among those dispatched
Matching(seen, type) == {k \in 1..Len(seen) : seen[k].type = type}

\* the contexts of b from which the host has observed a ready message
ObservedReady(b) == {c \in Own(b) : Matching(seenH[c], ReadyType) # {}}

\* context c has posted its ready message
PostedReady(c) == \E k \in 1..Len(ctx[c].trace) : ctx[c].trace[k] = "ready"

\* startWorkers(.., b) has been called and its synchronous part is over
Returned(b) == hpc[b] \in {"awaiting", "resolved", "rejected"}

\* C1: builder.build() is called at most once per invocation; when it has
\* been called a ready message had been observed from every one of the N
\* contexts at the call, and once the N-th ready message has been observed
\* it has been called.
C1_BuildIffAllReady ==
  \A b \in Builders :
    /\ buildCalls[b] <= 1
    /\ buildCalls[b] = 1 =>
         /\ ObservedReady(b) = Own(b)
         /\ buildSaw[b] = Own(b)
    /\ (Returned(b) /\ ObservedReady(b) = Own(b)) => buildCalls[b] = 1

C1_Witness ==
  \E b \in Builders : numThreads[b] = 2 /\ buildCalls[b] = 1

\* C2: the promise of startWorkers is resolved only when build() has been
\* called, and as long as one of the N contexts has not posted its ready
\* message the promise is pending and build() has not been called.
C2_PendingUntilAllReady ==
  \A b \in Builders :
    /\ hpc[b] = "resolved" => buildCalls[b] >= 1
    /\ (hpc[b] # "idle" /\ Created(b) = Own(b)
          /\ \E c \in Own(b) : ~PostedReady(c))
       => /\ hpc[b] \in {"spawning", "awaiting"}
          /\ buildCalls[b] = 0

C2_Witness ==
  \E b \in Builders :
    /\ numThreads[b] = 2
    /\ Created(b) = Own(b)
    /\ hpc[b] = "awaiting"
    /\ \E c \in Own(b) : ctx[c].pc = "failed"
    /\ \E c \in Own(b) : c \in ObservedReady(b)

\* C3: an invocation calls builder.receiver() once, whatever N is, and
\* new Worker() N times: never more, exactly N times once its synchronous
\* part is over, and then N contexts exist unless a constructor threw.
C3_SpawnsNReceiverOnce ==
  \A b \in Builders :
    /\ receiverCalls[b] <= 1
    /\ workerCalls[b] <= numThreads[b]
    /\ {c \in Ctx : c[1] = b /\ ctx[c].pc # "unspawned"} \subseteq Own(b)
    /\ hpc[b] # "idle" => receiverCalls[b] = 1
    /\ Returned(b) =>
         /\ workerCalls[b] = numThreads[b]
         /\ Cardinality(Created(b)) + Cardinality({c \in Own(b) : cb[c] = "rejected"})
              = numThreads[b]

C3_Witness ==
  \E b \in Builders :
    /\ numThreads[b] = 2
    /\ hpc[b] = "awaiting"
    /\ Cardinality(Created(b)) = 2
    /\ receiverCalls[b] = 1

\* the invocation of b has ended the way the end-to-end scenario says
Built(b) ==
  /\ hpc[b] = "resolved"
  /\ buildCalls[b] = 1
  /\ buildSaw[b] = Own(b)

\* a context of b was not created, or failed to resolve or initialize
Broken(b) ==
  \E c \in Own(b) : cb[c] = "rejected" \/ ctx[c].pc = "failed"

\* C4: an invocation that has been called leads to its promise resolved
\* with build() called once, after all N ready messages, unless one of its
\* contexts was not created or failed to resolve or initialize the module.
C4_EventuallyBuilt ==
  \A b \in Builders : (hpc[b] # "idle") ~> (Built(b) \/ Broken(b))

C4_Witness ==
  \E b \in Builders : numThreads[b] = 2 /\ Built(b) /\ ~Broken(b)

\* what waitForMsgType is to be after the messages seen were dispatched
AsSpecified(w, seen) ==
  LET ks == Matching(seen, w.want) IN
  IF ks = {}
  THEN w.resolves = 0 /\ w.value = NoMsg /\ w.listening
  ELSE /\ w.resolves = 1
       /\ w.value = seen[CHOOSE k \in ks : \A j \in ks : k <= j]
       /\ ~w.listening

\* C5: a waiter is resolved exactly when a message of its type has been
\* dispatched on its target, once however many were, with the first of
\* them, whatever messages of other types came before.
C5_FirstMatchOnce ==
  \A c \in Ctx :
    /\ cwait[c].want # None => AsSpecified(cwait[c], seenC[c])
    /\ hwait[c].want # None => AsSpecified(hwait[c], seenH[c])

C5_Witness ==
  \E c \in Ctx :
    /\ Len(seenC[c]) = 3
    /\ seenC[c][1] = OtherMsg
    /\ seenC[c][2] = workerInit[c[1]]
    /\ seenC[c][3] = ForeignInit
    /\ cwait[c].resolves = 1

\* C6: when new Worker() threw for one of the N contexts the promise of
\* startWorkers is rejected and build() is not called.
C6_SpawnFailureRejects ==
  \A b \in Builders :
    (\E c \in Own(b) : cb[c] = "rejected") =>
      /\ buildCalls[b] = 0
      /\ Returned(b) => hpc[b] = "rejected"

C6_Witness ==
  \E b \in Builders :
    /\ numThreads[b] = 2
    /\ hpc[b] = "rejected"
    /\ \E c \in Own(b) : ctx[c].pc = "running"

\* C7: whenever resolveMainModule fails it fails with the error of the
\* direct import.
C7_FailsWithOriginalError ==
  \A c \in Ctx : ctx[c].rerr # None => ctx[c].rerr = "e"

\* the fetch of the root URL by context c has succeeded
RootFetched(c) ==
  /\ ctx[c].fetches # <<>>
  /\ ctx[c].pc # "fetchRoot"
  /\ ~(ctx[c].rerr = "fetch" /\ Len(ctx[c].fetches) = 1)

\* the fetch of the script by context c has succeeded
ScriptFetched(c) ==
  /\ Len(ctx[c].fetches) >= 2
  /\ ctx[c].pc # "fetchScript"
  /\ ctx[c].rerr # "fetch"

\* C8: with <script type="module" src="/app-abcd.js"> at the root URL the
\* resolver fetches /app-abcd.js, and with from "./chunk-123.js" in that
\* script it imports /chunk-123.js.
C8_TypeFirstTagIsFollowed ==
  \A c \in Ctx :
    (html = HtmlTypeFirst /\ script = ScriptFromChunk /\ root = <<>>) =>
      /\ RootFetched(c) =>
           /\ Len(ctx[c].fetches) >= 2
           /\ ctx[c].fetches[2] = <<"app-abcd.js">>
      /\ ScriptFetched(c) => ctx[c].importReq = <<"chunk-123.js">>

\* C9: a fetch is issued only after the direct import has failed, none
\* when it succeeded, and the first one is of the root URL.
C9_FetchOnlyAfterImportFailed ==
  \A c \in Ctx :
    /\ ctx[c].fetches # <<>> =>
         /\ ctx[c].direct = "failed"
         /\ ctx[c].fetches[1] = root
    /\ ctx[c].direct = "ok" => ctx[c].fetches = <<>>
    /\ ctx[c].direct = "failed" => ctx[c].fetches # <<>>

C9_Witness ==
  \E c \in Ctx :
    /\ ctx[c].direct = "failed"
    /\ Len(ctx[c].fetches) = 2
    /\ ctx[c].fetches[1] = <<"pkg">>

\* the fan-in of builder b: its promise, its build() and its callbacks
FanIn(b) == <<hpc[b], buildCalls[b], buildSaw[b], [c \in Own(b) |-> cb[c]]>>

\* C10: each of two invocations, overlapping or not, creates its own N
\* contexts and calls its build() at most once, when the ready messages of
\* all its own contexts, posted by them, have been observed; and a ready
\* message observed from a context of one changes nothing in the fan-in of
\* the other.
C10_InvocationsIndependent ==
  /\ [](\A b \in Builders :
          /\ buildCalls[b] <= 1
          /\ Returned(b) => workerCalls[b] = numThreads[b]
          /\ buildCalls[b] = 1 =>
               /\ buildSaw[b] = Own(b)
               /\ \A c \in Own(b) : PostedReady(c))
  /\ [][\A b \in Builders, c \in Ctx :
          (c[1] # b /\ seenH'[c] # seenH[c]) => FanIn(b)' = FanIn(b)]_vars

C10_Witness ==
  /\ numThreads["b1"] = 2
  /\ hpc["b1"] = "awaiting"
  /\ ObservedReady("b1") # {}
  /\ buildCalls["b1"] = 0
  /\ numThreads["b2"] = 1
  /\ hpc["b2"] = "resolved"
  /\ buildCalls["b2"] = 1

\* the steps of the trampoline in the order of its text
TrampolineOrder == <<"init", "resolve", "resolved", "initSync", "ready", "start">>

\* s is the beginning of t
IsPrefix(s, t) == Len(s) <= Len(t) /\ \A k \in 1..Len(s) : s[k] = t[k]

\* context c has taken the step
Did(c, step) == \E k \in 1..Len(ctx[c].trace) : ctx[c].trace[k] = step

\* how many ready messages context c has posted: those the host has been
\* given and those still on their way
ReadyPosted(c) ==
  Cardinality(Matching(seenH[c], ReadyType))
    + Cardinality(Matching(outbox[c], ReadyType))

\* C11: the steps of a context's trampoline are taken in the order init
\* received, module resolution started, module resolved, initSync called
\* with the init payload, ready posted, wbg_rayon_start_worker called with
\* the receiver; a context in the work loop has posted ready, and a context
\* that has posted ready has called initSync and initSync has returned.
C11_TrampolineInOrder ==
  \A c \in Ctx :
    /\ IsPrefix(ctx[c].trace, TrampolineOrder)
    /\ Did(c, "init") <=> cwait[c].resolves > 0
    /\ Did(c, "resolved") <=> ctx[c].module # NoUrl
    /\ Did(c, "initSync") =>
         /\ ctx[c].initArg = cwait[c].value.init
         /\ ctx[c].module # NoUrl
    /\ ctx[c].pc = "running" <=> Did(c, "start")
    /\ ctx[c].pc = "running" =>
         /\ ReadyPosted(c) = 1
         /\ ctx[c].startArg = cwait[c].value.receiver
    /\ ReadyPosted(c) > 0 =>
         /\ Did(c, "ready")
         /\ Did(c, "initSync")
         /\ ctx[c].pc # "failed"

C11_Witness ==
  \E c \in Ctx :
    /\ ctx[c].trace = TrampolineOrder
    /\ ctx[c].direct = "failed"
    /\ ctx[c].module = <<"pkg", "chunk-123.js">>

\* C12: a context posts at most one ready message, however many messages
\* of the init type are dispatched on it; it has posted one exactly when
\* initSync has returned, and it is then in the work loop.
C12_AtMostOneReady ==
  \A c \in Ctx :
    /\ ReadyPosted(c) <= 1
    /\ ReadyPosted(c) = 1 <=> ctx[c].pc = "running"
    /\ ReadyPosted(c) = 1 =>
         /\ ctx[c].initArg # NoInitArg
         /\ ctx[c].startArg # None
    /\ ctx[c].pc = "failed" => ReadyPosted(c) = 0

C12_Witness ==
  \E c \in Ctx :
    /\ Cardinality(Matching(seenC[c], InitType)) = 2
    /\ ReadyPosted(c) = 1
    /\ Matching(seenH[c], ReadyType) # {}


\* the messages posted to context c so far, in the order of their dispatch
Posted(c) == seenC[c] \o inbox[c]

\* the positions of the host's init message among them
HostInits(c) == {k \in 1..Len(Posted(c)) : Posted(c)[k] = workerInit[c[1]]}

\* C13: a context that exists has been posted the init message of its
\* invocation exactly once, and no message of the init type ahead of it; as
\* long as no message of the init type has been dispatched on the context,
\* whatever else was, its trampoline has taken no step; and the steps it
\* takes are taken on the host's init message.
C13_OneInitActedOnFirst ==
  \A c \in Ctx :
    /\ ctx[c].pc = "unspawned" => Posted(c) = <<>>
    /\ ctx[c].pc # "unspawned" =>
         /\ Cardinality(HostInits(c)) = 1
         /\ \A k \in Matching(Posted(c), InitType) :
              \A h \in HostInits(c) : h <= k
    /\ Matching(seenC[c], InitType) = {} =>
         /\ ctx[c].trace = <<>>
         /\ ctx[c].pc \in {"unspawned", "loading", "awaiting"}
         /\ ctx[c].module = NoUrl
         /\ ctx[c].fetches = <<>>
         /\ ctx[c].initArg = NoInitArg
         /\ ReadyPosted(c) = 0
    /\ ctx[c].trace # <<>> => cwait[c].value = workerInit[c[1]]

C13_Witness ==
  \E c \in Ctx :
    /\ numThreads[c[1]] = 2
    /\ Len(seenC[c]) = 2
    /\ seenC[c][1] = OtherMsg
    /\ seenC[c][2] = workerInit[c[1]]
    /\ ctx[c].pc = "running"


\* the listeners that the call behind waiter w has on its target
Listeners(w) == IF w.listening THEN 1 ELSE 0

\* the life of the listener of waiter w, the call having been made or not,
\* after the messages seen were dispatched on its target
ListenerLife(w, called, type, seen) ==
  /\ ~called => w = NoWaiter
  /\ called =>
       /\ w.want = type
       /\ Matching(seen, type) = {} => Listeners(w) = 1 /\ w.resolves = 0
       /\ Matching(seen, type) # {} => Listeners(w) = 0 /\ w.resolves > 0
       /\ w.resolves > 0 => Listeners(w) = 0

\* C14: a call of waitForMsgType has one listener on its target from the
\* call on, through every message of another type, until the first message
\* of its type is dispatched; from then on, the promise being resolved, it
\* has none.  The host makes the call when it creates a context and the
\* context when its script runs.
C14_ListenerUntilFirstMatch ==
  \A c \in Ctx :
    /\ ListenerLife(hwait[c], ctx[c].pc # "unspawned", ReadyType, seenH[c])
    /\ ListenerLife(cwait[c], ctx[c].pc \notin {"unspawned", "loading"},
                    InitType, seenC[c])

C14_Witness ==
  \E c \in Ctx :
    /\ Len(seenH[c]) = 3
    /\ seenH[c][1] = OtherMsg
    /\ seenH[c][2] = ReadyMsg
    /\ seenH[c][3] = OtherMsg
    /\ Listeners(hwait[c]) = 0
    /\ Listeners(cwait[c]) = 0


\* what holds of context c and its invocation once c has failed
FailedForGood(c) ==
  LET b == c[1] IN
  /\ ctx[c].pc = "failed"
  /\ ReadyPosted(c) = 0
  /\ ~Did(c, "ready")
  /\ ~Did(c, "start")
  /\ cb[c] = "pending"
  /\ buildCalls[b] = 0
  /\ hpc[b] # "resolved"
  /\ (\A d \in Own(b) : cb[d] # "rejected") => hpc[b] \in {"spawning", "awaiting"}

\* C15: from the moment the module resolution or initSync of a context
\* fails, that context posts no ready message and does not enter the work
\* loop, build() of its invocation is never called and the promise of
\* startWorkers is never resolved; it stays pending, not rejected, when no
\* constructor threw, whichever of the other contexts become ready.
C15_FailedContextLeavesPending ==
  \A c \in Ctx : [](ctx[c].pc = "failed" => []FailedForGood(c))

C15_Witness ==
  \E b \in Builders : \E c, d \in Own(b) :
    /\ Created(b) = Own(b)
    /\ ctx[c].pc = "failed"
    /\ Did(c, "initSync")
    /\ hwait[d].resolves = 1
    /\ hpc[b] = "awaiting"
    /\ buildCalls[b] = 0


\* every context of b exists and has posted its ready message
AllPosted(b) ==
  /\ hpc[b] # "idle"
  /\ Created(b) = Own(b)
  /\ \A c \in Own(b) : PostedReady(c)

\* C16: while an invocation is starting its contexts the next one can be
\* started at once, and whenever it starts one (new Worker and the posting
\* of init) it has observed no ready message of any of its contexts, so
\* that no start waited for one; and once all N contexts have posted ready,
\* in whatever order the messages are then dispatched on the host, build()
\* is called.
C16_SpawnInParallel ==
  /\ [](\A b \in Builders : hpc[b] = "spawning" => ENABLED SpawnWorker(b))
  /\ [][\A b \in Builders :
          workerCalls'[b] # workerCalls[b] =>
            \A c \in Own(b) : hwait[c].resolves = 0 /\ cb[c] # "fulfilled"]_vars
  /\ \A b \in Builders : AllPosted(b) ~> Built(b)

C16_Witness ==
  \E b \in Builders :
    /\ numThreads[b] = 2
    /\ AllPosted(b)
    /\ hwait[<<b, 2>>].resolves = 1
    /\ hwait[<<b, 1>>].resolves = 0
    /\ buildCalls[b] = 0


\* the init payload and the receiver of the invocation of builder b
PayloadOf(b) == [module |-> ModuleOf(b), memory |-> MemoryOf(b)]

\* the first message of the init type posted to context c
FirstInit(c) ==
  Posted(c)[CHOOSE k \in Matching(Posted(c), InitType) :
              \A j \in Matching(Posted(c), InitType) : k <= j]

\* C17: the workerInit object of an invocation carries, from its
\* construction on, the module and the memory passed to startWorkers and
\* what builder.receiver() returned; every context of the invocation is
\* posted that object and resolves its init waiter with it, whatever is
\* posted to it afterwards; and it calls initSync with the payload and
\* wbg_rayon_start_worker with the receiver of that object.
C17_SameInitUnchanged ==
  \A b \in Builders :
    /\ hpc[b] # "idle" =>
         /\ workerInit[b].type = InitType
         /\ workerInit[b].init = PayloadOf(b)
         /\ workerInit[b].receiver = ReceiverOf(b)
    /\ \A c \in Created(b) :
         /\ FirstInit(c) = workerInit[b]
         /\ cwait[c].resolves > 0 => cwait[c].value = workerInit[b]
         /\ Did(c, "initSync") => ctx[c].initArg = PayloadOf(b)
         /\ Did(c, "start") => ctx[c].startArg = ReceiverOf(b)

C17_Witness ==
  \E b \in Builders : \E c \in Own(b) :
    /\ numThreads[b] = 2
    /\ \A d \in Own(b) : ctx[d].pc = "running" /\ ctx[d].initArg = PayloadOf(b)
    /\ \E k \in 1..Len(seenC[c]) : seenC[c][k] = ForeignInit


\* the host can still be given the ready message of context c, or has been
HostHears(c) ==
  /\ hwait[c].want = ReadyType
  /\ hwait[c].listening \/ hwait[c].resolves > 0

\* C18: the step of the host that posts the init message to a context
\* leaves the ready listener registered on it, so that from the creation
\* of a context on the host either listens for its ready message or has
\* resolved on it; a ready message dispatched on the host fulfils the
\* callback of its context, and a ready message posted is in the end
\* dispatched and does so.
C18_NoReadyLost ==
  /\ [](\A c \in Ctx :
          /\ (ctx[c].pc # "unspawned" \/ Posted(c) # <<>>) => HostHears(c)
          /\ ReadyPosted(c) > 0 =>
               hwait[c].listening \/ Matching(seenH[c], ReadyType) # {}
          /\ Matching(seenH[c], ReadyType) # {} =>
               hwait[c].resolves = 1 /\ cb[c] = "fulfilled")
  /\ [][\A c \in Ctx :
          Posted(c)' # Posted(c) /\ Posted(c) = <<>> => hwait'[c].listening]_vars
  /\ \A c \in Ctx : PostedReady(c) ~> (cb[c] = "fulfilled")

C18_Witness ==
  \E b \in Builders :
    /\ hpc[b] = "spawning"
    /\ outbox[<<b, 1>>] = <<ReadyMsg>>
    /\ hwait[<<b, 1>>].listening


\* a constructor of the invocation of builder b threw
SpawnFailed(b) == \E d \in Own(b) : cb[d] = "rejected"

\* context c has come to the end of its trampoline
Settled(c) == ctx[c].pc \in {"running", "failed"}

\* C19: when a constructor of an invocation threw, the invocation has
\* still called new Worker N times by the end of its synchronous part, and
\* each context whose constructor did not throw exists and has been posted
\* the init message once, while the promise is rejected and build() is not
\* called; a context that exists never ceases to, and it goes on to run
\* its trampoline to the work loop or to a failure of its own.
C19_SurvivorsRunOn ==
  /\ [](\A b \in Builders :
          (Returned(b) /\ SpawnFailed(b)) =>
            /\ hpc[b] = "rejected"
            /\ buildCalls[b] = 0
            /\ workerCalls[b] = numThreads[b]
            /\ \A c \in Own(b) :
                 cb[c] # "rejected" =>
                   /\ ctx[c].pc # "unspawned"
                   /\ Cardinality(HostInits(c)) = 1)
  /\ [][\A c \in Ctx :
          ctx[c].pc # "unspawned" => ctx'[c].pc # "unspawned"]_vars
  /\ \A c \in Ctx :
       (ctx[c].pc # "unspawned" /\ SpawnFailed(c[1])) ~> Settled(c)

C19_Witness ==
  \E b \in Builders :
    /\ numThreads[b] = 2
    /\ cb[<<b, 1>>] = "rejected"
    /\ hpc[b] = "rejected"
    /\ ctx[<<b, 2>>].pc = "running"
    /\ seenH[<<b, 2>>] = <<ReadyMsg>>
    /\ buildCalls[b] = 0


\* the contexts of builder b, asked for or not
Of(b) == {c \in Ctx : c[1] = b}

\* C20: an invocation whose builder reports no thread has, once called,
\* called builder.receiver() once and new Worker() never, created no
\* context, posted and awaited nothing, called builder.build() once and
\* resolved its promise, all within the call.
C20_NoThreadsBuildsAtOnce ==
  \A b \in Builders :
    (numThreads[b] = 0 /\ hpc[b] # "idle") =>
      /\ receiverCalls[b] = 1
      /\ workerCalls[b] = 0
      /\ \A c \in Of(b) :
           /\ ctx[c] = NoCtx
           /\ Posted(c) = <<>>
           /\ hwait[c] = NoWaiter
           /\ cb[c] = "none"
      /\ buildCalls[b] = 1
      /\ buildSaw[b] = {}
      /\ hpc[b] = "resolved"

C20_Witness ==
  \E b, b2 \in Builders :
    /\ numThreads[b] = 0
    /\ hpc[b] = "resolved"
    /\ buildCalls[b] = 1
    /\ numThreads[b2] = 2
    /\ hpc[b2] = "awaiting"


====
